---- MODULE Spec2Model ----
(***************************************************************************)
(* Model of query_opt/code/parse_and_evaluate.py (class MetricsEvaluator). *)
(*                                                                         *)
(* Python str values are TLA+ strings; a character is a string of length   *)
(* one.  The string operations of the source (strip, split, join, replace, *)
(* re.sub, json.loads) are operators that compute what the Python          *)
(* operation computes, character by character.                             *)
(*                                                                         *)
(* Two specifications:                                                     *)
(*   SpecClean  _clean_response, executed one source line at a time on one *)
(*              response text, optionally a second time on its own result; *)
(*   Spec       evaluate_file on one file, one loop iteration              *)
(*              (_process_row) per step, then the scorers and the report.  *)
(***************************************************************************)
EXTENDS Integers, Sequences, FiniteSets, TLC

VARIABLES
    \* ---- _clean_response (SpecClean) ----
    origin,       \* the text the first call was given
    shape,        \* how origin was drawn: canonical array (with its values) or free text
    pass,         \* 1: first call, 2: call on the first call's result
    first,        \* result of the first call (once it returned)
    cur,          \* local variable `response`
    prev,         \* value of `response` before the line executed last
    cpc,          \* index into CleanLines of the line to execute next; Len+1 = returned
    cexc,         \* exception raised by _clean_response ("none" if none)
    \* ---- evaluate_file (Spec) ----
    pc,           \* position in evaluate_file
    rows,         \* number of rows iterated so far (df.iterrows position)
    row,          \* the row handed to the last _process_row call
    response,     \* _process_row's local `response` (cleaned text) of the last call
    queries, references, predictions,
    match, unmatch,
    m_inc, u_inc, \* return value of the last _process_row call
    exc,          \* exception that left evaluate_file ("none" if none)
    rougeCalls, bertCalls,   \* number of compute() calls on each scorer
    rougeArgs, bertArgs,     \* arguments of the last compute() call
    printed,      \* what evaluate_file printed: "none", "norows" or "report"
    accuracy      \* local `accuracy`, in hundredths of a percent: <<>> while unset

cleanVars == <<origin, shape, pass, first, cur, prev, cpc, cexc>>
fileVars  == <<pc, rows, row, response, queries, references, predictions,
               match, unmatch, m_inc, u_inc, exc,
               rougeCalls, bertCalls, rougeArgs, bertArgs, printed, accuracy>>
vars == <<cleanVars, fileVars>>

----------------------------------------------------------------------------
(* Python str primitives *)

\* s[m-1:n] of Python (1-based, inclusive); empty when out of range
Slice(s, m, n) == IF m > n \/ m < 1 \/ n > Len(s) THEN "" ELSE SubSeq(s, m, n)

\* the character at position i, "" when there is none
At(s, i) == Slice(s, i, i)

Chars(s) == {At(s, i) : i \in 1..Len(s)}

\* str.isspace / regex \s / JSON whitespace, over the characters of the model
WS == {" ", "\n", "\t", "\r"}

\* Characters that cannot be written inside a TLA+ string (the backtick and
\* the four non-ASCII characters of source lines 56-57) are written with ASCII
\* characters that occur nowhere else in the model.
Backtick == "@"
Fence == Backtick \o Backtick \o Backtick
U00E2 == "^"   \* a with circumflex
U20AC == "$"   \* euro sign
U02DC == "~"   \* small tilde
U0153 == "|"   \* oe ligature

\* regex \w (str pattern, Unicode): letters (U+00E2 and U+0153 among them),
\* digits, underscore
WordChars ==
    Chars("abcdefghijklmnopqrstuvwxyzABCDEFGHIJKLMNOPQRSTUVWXYZ0123456789_")
        \cup {U00E2, U0153}

Digits == Chars("0123456789")

\* least element of a non-empty set of integers
Least(c) == CHOOSE j \in c : \A k \in c : j <= k

\* first index >= i whose character is in `set` (Len + 1 if none)
NextIn(s, i, set) ==
    CHOOSE j \in i..(Len(s) + 1) :
        /\ j = Len(s) + 1 \/ At(s, j) \in set
        /\ \A k \in i..(j - 1) : At(s, k) \notin set

\* first index >= i whose character is not in `set` (Len + 1 if none)
NextNotIn(s, i, set) ==
    CHOOSE j \in i..(Len(s) + 1) :
        /\ j = Len(s) + 1 \/ At(s, j) \notin set
        /\ \A k \in i..(j - 1) : At(s, k) \in set

StartsAt(s, pat, i) ==
    /\ i >= 1
    /\ i + Len(pat) - 1 <= Len(s)
    /\ Slice(s, i, i + Len(pat) - 1) = pat

\* str.find from position i (1-based); 0 when absent
find(s, pat, i) ==
    LET c == {j \in i..(Len(s) - Len(pat) + 1) : StartsAt(s, pat, j)}
    IN  IF c = {} THEN 0 ELSE Least(c)

contains(s, pat) == find(s, pat, 1) # 0

\* str.split(sep): non-overlapping occurrences, left to right
RECURSIVE split(_, _)
split(s, sep) ==
    LET j == find(s, sep, 1)
    IN  IF j = 0 THEN <<s>>
        ELSE <<Slice(s, 1, j - 1)>> \o split(Slice(s, j + Len(sep), Len(s)), sep)

\* str.split(sep, 1)
split1(s, sep) ==
    LET j == find(s, sep, 1)
    IN  IF j = 0 THEN <<s>>
        ELSE <<Slice(s, 1, j - 1), Slice(s, j + Len(sep), Len(s))>>

\* sep.join(parts)
RECURSIVE join(_, _)
join(parts, sep) ==
    IF Len(parts) = 0 THEN ""
    ELSE IF Len(parts) = 1 THEN parts[1]
    ELSE parts[1] \o sep \o join(Tail(parts), sep)

\* str.replace(old, new)
replace(s, old, new) == join(split(s, old), new)

\* str.strip()
strip(s) ==
    LET keep == {i \in 1..Len(s) : At(s, i) \notin WS}
    IN  IF keep = {} THEN ""
        ELSE Slice(s, Least(keep), CHOOSE i \in keep : \A k \in keep : i >= k)

Last(parts) == parts[Len(parts)]

ButLast(parts) == SubSeq(parts, 1, Len(parts) - 1)

----------------------------------------------------------------------------
(* _replace_quotes *)

Quote == "\""

\* regex \b at the gap before position i
WordBoundary(s, i) ==
    LET l == i - 1 >= 1 /\ At(s, i - 1) \in WordChars
        r == i <= Len(s) /\ At(s, i) \in WordChars
    IN  l # r

\* end of the maximal run of [\w-] characters starting at i (i - 1 if none)
RunEnd(s, i) == NextNotIn(s, i, WordChars \cup {"-"}) - 1

\* (?!query\b|summary\b) fails at i
KeyAhead(s, i) ==
    \E k \in {"query", "summary"} : StartsAt(s, k, i) /\ WordBoundary(s, i + Len(k))

\* "(\b(?!query\b|summary\b)[\w-]+\b)" matched at i: index of the closing quote, else 0
MatchEnd(s, i) ==
    LET e == RunEnd(s, i + 1)
    IN  IF /\ At(s, i) = Quote
           /\ e >= i + 1
           /\ WordBoundary(s, i + 1)
           /\ ~KeyAhead(s, i + 1)
           /\ WordBoundary(s, e + 1)
           /\ e + 1 <= Len(s)
           /\ At(s, e + 1) = Quote
        THEN e + 1 ELSE 0

replacer(word) ==
    IF word \notin {"\"query\"", "\"summary\""} THEN replace(word, Quote, "'") ELSE word

\* pattern.sub(replacer, text) from position i on: the leftmost match at or
\* after i is replaced and the scan resumes after it
RECURSIVE SubFrom(_, _)
SubFrom(s, i) ==
    LET c == {j \in i..Len(s) : MatchEnd(s, j) # 0}
    IN  IF c = {} THEN Slice(s, i, Len(s))
        ELSE LET j == Least(c)
                 m == MatchEnd(s, j)
             IN  Slice(s, i, j - 1) \o replacer(Slice(s, j, m)) \o SubFrom(s, m + 1)

replace_quotes(text) == SubFrom(text, 1)

----------------------------------------------------------------------------
(* _clean_response, line by line *)

\* first index >= i that is not whitespace (Len + 1 if none)
\* (regex \s*, and the whitespace skipping of the json scanner)
SkipWs(s, i) == NextNotIn(s, i, WS)

\* re.sub(r'}(?=\s*{)', '},', s) from position i on
RECURSIVE BraceComma(_, _)
BraceComma(s, i) ==
    LET c == {j \in i..Len(s) : At(s, j) = "}" /\ At(s, SkipWs(s, j + 1)) = "{"}
    IN  IF c = {} THEN Slice(s, i, Len(s))
        ELSE Slice(s, i, Least(c) - 1) \o "}," \o BraceComma(s, Least(c) + 1)

Returned(v) == [exc |-> "none", val |-> v]
Raised(e, v) == [exc |-> e, val |-> v]

Line42(r) == strip(r)
Line43(r) == Last(split(r, "[/INST]"))
\* line 44 without the [1:] slice
Line44_KeepsFirstPart(r) == "[" \o join(split(r, "["), "[")

Line44(r) == "[" \o join(Tail(split(r, "[")), "[")
Line45(r) ==
    IF At(r, 1) # "[" /\ contains(r, ":")
    THEN LET parts == split1(r, ":")
         IN  IF Len(parts) > 1 THEN strip(parts[2]) ELSE r
    ELSE IF At(r, 1) # "[" THEN "[" \o strip(r)
    ELSE r
Line50(r) == replace(r, "\n", " ")
Line51(r) == replace(r, ",\"", ",")
Line52(r) == replace_quotes(r)
Line53(r) == replace(r, Fence, "")
Line54(r) == replace(r, Fence \o "json", "")
Line55(r) == replace(r, "'", " ")
Line56(r) == replace(r, U00E2 \o U20AC \o U02DC, " ")
Line57(r) == replace(r, U00E2 \o U20AC \o U0153, " ")
Line58(r) == replace(r, "[ / JSONObjects]", " ")
Line59(r) == BraceComma(r, 1)
\* line 60 with index 0 in place of -1
Line60_First(r) == strip(split(r, "#Transcript End")[1])

Line60(r) == strip(Last(split(r, "#Transcript End")))
\* lines 61-62 appending the bracket without truncating
Line61_AppendsBracket(r) == IF At(r, Len(r)) # "]" THEN r \o "]" ELSE r

Line61(r) ==
    IF At(r, Len(r)) # "]" THEN join(ButLast(split(r, "]")), "]") \o "]" ELSE r

CleanLines == <<42, 43, 44, 45, 50, 51, 52, 53, 54, 55, 56, 57, 58, 59, 60, 61>>

\* one line of _clean_response applied to the current text: the new text, or
\* the exception the line raises (response[0], response[-1] on an empty str)
Exec(line, r) ==
    CASE line = 42 -> Returned(Line42(r))
      [] line = 43 -> Returned(Line43(r))
      [] line = 44 -> Returned(Line44(r))
      [] line = 45 -> IF r = "" THEN Raised("IndexError", r) ELSE Returned(Line45(r))
      [] line = 50 -> Returned(Line50(r))
      [] line = 51 -> Returned(Line51(r))
      [] line = 52 -> Returned(Line52(r))
      [] line = 53 -> Returned(Line53(r))
      [] line = 54 -> Returned(Line54(r))
      [] line = 55 -> Returned(Line55(r))
      [] line = 56 -> Returned(Line56(r))
      [] line = 57 -> Returned(Line57(r))
      [] line = 58 -> Returned(Line58(r))
      [] line = 59 -> Returned(Line59(r))
      [] line = 60 -> Returned(Line60(r))
      [] line = 61 -> IF r = "" THEN Raised("IndexError", r) ELSE Returned(Line61(r))

RECURSIVE RunLines(_, _)
RunLines(k, r) ==
    IF k > Len(CleanLines) THEN Returned(r)
    ELSE LET o == Exec(CleanLines[k], r)
         IN  IF o.exc # "none" THEN o ELSE RunLines(k + 1, o.val)

clean_response(resp) == RunLines(1, resp)

----------------------------------------------------------------------------
(* json.loads (CPython json.decoder / json.scanner), strict mode.           *)
(* A parsed value is [k |-> kind, v |-> payload]:                           *)
(*   "str" text, "int"/"float" literal text, "lit" literal text,            *)
(*   "arr" sequence of values, "obj" sequence of <<key, value>> in source   *)
(*   order (duplicates kept; lookup takes the last, as dict does).          *)
(* Backslash escapes are not modelled: no text of the model has a backslash.*)

Fail == [ok |-> FALSE, next |-> 0, val |-> [k |-> "none", v |-> ""]]
Ok(n, value) == [ok |-> TRUE, next |-> n, val |-> value]

\* py_scanstring: index of the closing quote searching from j, 0 if the
\* string is unterminated or holds a control character or a backslash
StrEnd(s, j) ==
    LET e == NextIn(s, j, {Quote, "\n", "\t", "\r", "\\"})
    IN  IF At(s, e) = Quote THEN e ELSE 0

ScanString(s, i) ==
    LET e == StrEnd(s, i + 1)
    IN  IF e = 0 THEN Fail ELSE Ok(e + 1, [k |-> "str", v |-> Slice(s, i + 1, e - 1)])

\* end of the run of digits starting at i (i - 1 if none)
DigitsEnd(s, i) == NextNotIn(s, i, Digits) - 1

\* NUMBER_RE = (-?(?:0|[1-9]\d*))(\.\d+)?([eE][-+]?\d+)?
ScanNumber(s, i) ==
    LET d == IF At(s, i) = "-" THEN i + 1 ELSE i
        e == IF At(s, d) = "0" THEN d
             ELSE IF At(s, d) \in Digits THEN DigitsEnd(s, d) ELSE 0
        f == IF At(s, e + 1) = "." /\ At(s, e + 2) \in Digits THEN DigitsEnd(s, e + 2) ELSE e
        p == IF At(s, f + 2) \in {"+", "-"} THEN f + 3 ELSE f + 2
        g == IF At(s, f + 1) \in {"e", "E"} /\ At(s, p) \in Digits THEN DigitsEnd(s, p) ELSE f
    IN  IF e = 0 THEN Fail
        ELSE Ok(g + 1, [k |-> IF g = e THEN "int" ELSE "float", v |-> Slice(s, i, g)])

Lit(s, i, text) == Ok(i + Len(text), [k |-> "lit", v |-> text])

RECURSIVE ScanOnce(_, _)
RECURSIVE ArrayItems(_, _, _)
RECURSIVE Members(_, _, _)

\* JSONArray, i is the index after "["
ScanArray(s, i) ==
    LET j == SkipWs(s, i)
    IN  IF At(s, j) = "]" THEN Ok(j + 1, [k |-> "arr", v |-> <<>>])
        ELSE ArrayItems(s, j, <<>>)

\* JSONObject, i is the index after "{"
ScanObject(s, i) ==
    LET j == SkipWs(s, i)
    IN  IF At(s, j) = "}" THEN Ok(j + 1, [k |-> "obj", v |-> <<>>])
        ELSE IF At(s, j) # Quote THEN Fail
        ELSE Members(s, j, <<>>)

ArrayItems(s, i, acc) ==
    LET r == ScanOnce(s, i)
    IN  IF ~r.ok THEN Fail
        ELSE LET j == SkipWs(s, r.next)
                 items == Append(acc, r.val)
             IN  IF At(s, j) = "]" THEN Ok(j + 1, [k |-> "arr", v |-> items])
                 ELSE IF At(s, j) = "," THEN ArrayItems(s, SkipWs(s, j + 1), items)
                 ELSE Fail

Members(s, i, acc) ==
    LET key == ScanString(s, i)
    IN  IF ~key.ok THEN Fail
        ELSE LET j == SkipWs(s, key.next)
             IN  IF At(s, j) # ":" THEN Fail
                 ELSE LET r == ScanOnce(s, SkipWs(s, j + 1))
                      IN  IF ~r.ok THEN Fail
                          ELSE LET m == SkipWs(s, r.next)
                                   pairs == Append(acc, <<key.val.v, r.val>>)
                                   n == SkipWs(s, m + 1)
                               IN  IF At(s, m) = "}" THEN Ok(m + 1, [k |-> "obj", v |-> pairs])
                                   ELSE IF At(s, m) = "," /\ At(s, n) = Quote
                                        THEN Members(s, n, pairs)
                                   ELSE Fail

\* scanner.py_make_scanner._scan_once
ScanOnce(s, i) ==
    LET c == At(s, i)
    IN  IF c = Quote THEN ScanString(s, i)
        ELSE IF c = "{" THEN ScanObject(s, i + 1)
        ELSE IF c = "[" THEN ScanArray(s, i + 1)
        ELSE IF StartsAt(s, "null", i) THEN Lit(s, i, "null")
        ELSE IF StartsAt(s, "true", i) THEN Lit(s, i, "true")
        ELSE IF StartsAt(s, "false", i) THEN Lit(s, i, "false")
        ELSE IF ScanNumber(s, i).ok THEN ScanNumber(s, i)
        ELSE IF StartsAt(s, "NaN", i) THEN Lit(s, i, "NaN")
        ELSE IF StartsAt(s, "Infinity", i) THEN Lit(s, i, "Infinity")
        ELSE IF StartsAt(s, "-Infinity", i) THEN Lit(s, i, "-Infinity")
        ELSE Fail

\* json.loads(s): ok = FALSE stands for json.JSONDecodeError
json_loads(s) ==
    LET r == ScanOnce(s, SkipWs(s, 1))
    IN  IF r.ok /\ SkipWs(s, r.next) = Len(s) + 1 THEN r ELSE Fail

----------------------------------------------------------------------------
(* Python object protocol on parsed values *)

\* the indices of the (key, value) pairs a dict built from `pairs` holds:
\* one per distinct key, at the key's first position, with its last value
LastOf(pairs, key) ==
    CHOOSE i \in 1..Len(pairs) :
        pairs[i][1] = key /\ \A j \in 1..Len(pairs) : pairs[j][1] = key => j <= i

HasKey(val, key) == val.k = "obj" /\ \E i \in 1..Len(val.v) : val.v[i][1] = key

\* val[key] for a dict that has the key
GetItem(val, key) == val.v[LastOf(val.v, key)][2]

RECURSIVE PyRepr(_)
RECURSIVE ReprItems(_)
RECURSIVE ReprPairs(_, _)

\* repr(str): single quotes unless the text has a single and no double quote
StrRepr(t) ==
    IF contains(t, "'") /\ ~contains(t, Quote) THEN Quote \o t \o Quote
    ELSE "'" \o replace(t, "'", "\\'") \o "'"

LitStr(t) ==
    CASE t = "null" -> "None"
      [] t = "true" -> "True"
      [] t = "false" -> "False"
      [] t = "NaN" -> "nan"
      [] t = "Infinity" -> "inf"
      [] t = "-Infinity" -> "-inf"

\* str(int(text)); the text form of a float is its literal (no float occurs
\* in the texts of the model)
NumStr(val) == IF val.k = "int" /\ val.v = "-0" THEN "0" ELSE val.v

ReprItems(items) ==
    IF Len(items) = 0 THEN ""
    ELSE IF Len(items) = 1 THEN PyRepr(items[1])
    ELSE PyRepr(items[1]) \o ", " \o ReprItems(Tail(items))

ReprPairs(pairs, i) ==
    IF i > Len(pairs) THEN ""
    ELSE IF \E j \in 1..(i - 1) : pairs[j][1] = pairs[i][1] THEN ReprPairs(pairs, i + 1)
    ELSE LET item == StrRepr(pairs[i][1]) \o ": "
                       \o PyRepr(pairs[LastOf(pairs, pairs[i][1])][2])
             rest == ReprPairs(pairs, i + 1)
         IN  IF rest = "" THEN item ELSE item \o ", " \o rest

PyRepr(val) ==
    CASE val.k = "str" -> StrRepr(val.v)
      [] val.k \in {"int", "float"} -> NumStr(val)
      [] val.k = "lit" -> LitStr(val.v)
      [] val.k = "arr" -> "[" \o ReprItems(val.v) \o "]"
      [] val.k = "obj" -> "{" \o ReprPairs(val.v, 1) \o "}"

\* str(val)
PyStr(val) == IF val.k = "str" THEN val.v ELSE PyRepr(val)

----------------------------------------------------------------------------
(* _process_row *)

Min(a, b) == IF a <= b THEN a ELSE b

\* the items a for-loop / enumerate() yields for a parsed value, as values:
\* list elements, dict keys (str), the characters of a str
Elements(val) ==
    CASE val.k = "arr" -> val.v
      [] val.k = "obj" ->
            LET keep == {i \in 1..Len(val.v) :
                            \A j \in 1..(i - 1) : val.v[j][1] # val.v[i][1]}
                nth[i \in 0..Len(val.v)] ==
                    IF i = 0 THEN <<>>
                    ELSE IF i \in keep
                         THEN Append(nth[i - 1], [k |-> "str", v |-> val.v[i][1]])
                         ELSE nth[i - 1]
            IN  nth[Len(val.v)]
      [] val.k = "str" -> [i \in 1..Len(val.v) |-> [k |-> "str", v |-> At(val.v, i)]]
      [] OTHER -> <<>>

Iterable(val) == val.k \in {"arr", "obj", "str"}

\* lines 96-99: str(item['summary']), '' when the subscript raises
ItemSummary(item) ==
    IF HasKey(item, "summary") THEN PyStr(GetItem(item, "summary")) ELSE ""

\* the loop of lines 94-99 without the test of line 95
RECURSIVE PredLoop_NoBound(_, _, _, _)
PredLoop_NoBound(items, index, nrefs, preds) ==
    IF index >= Len(items) THEN preds
    ELSE PredLoop_NoBound(items, index + 1, nrefs,
                          Append(preds, ItemSummary(items[index + 1])))

\* lines 94-99: the loop over enumerate(json_predictions), from `index` on
RECURSIVE PredLoop(_, _, _, _)
PredLoop(items, index, nrefs, preds) ==
    IF index >= Len(items) THEN preds
    ELSE IF index < nrefs
         THEN PredLoop(items, index + 1, nrefs, Append(preds, ItemSummary(items[index + 1])))
         ELSE PredLoop(items, index + 1, nrefs, preds)

\* lines 105-106 left out
Pad_NoPadding(preds, qs) == preds

\* lines 105-106
RECURSIVE Pad(_, _)
Pad(preds, qs) == IF Len(preds) < Len(qs) THEN Pad(Append(preds, ""), qs) ELSE preds

\* lines 86-88: the loop over json_references from item i on; stops at the
\* first item whose subscript or .strip() raises.  A summary that is not a
\* str is kept by its str() form.
RECURSIVE RefLoop(_, _, _, _)
RefLoop(items, i, qs, rs) ==
    IF i > Len(items) THEN [exc |-> "none", queries |-> qs, references |-> rs]
    ELSE LET item == items[i]
         IN  IF item.k # "obj" THEN [exc |-> "TypeError", queries |-> qs, references |-> rs]
             ELSE IF ~HasKey(item, "query")
                  THEN [exc |-> "KeyError", queries |-> qs, references |-> rs]
             ELSE IF GetItem(item, "query").k # "str"
                  THEN [exc |-> "AttributeError", queries |-> qs, references |-> rs]
             ELSE LET qs2 == Append(qs, strip(GetItem(item, "query").v))
                  IN  IF ~HasKey(item, "summary")
                      THEN [exc |-> "KeyError", queries |-> qs2, references |-> rs]
                      ELSE RefLoop(items, i + 1, qs2,
                                   Append(rs, PyStr(GetItem(item, "summary"))))

\* _process_row(row, predictions, queries, references): the lists after the
\* call, the cleaned response, the returned pair and the exception raised
RowResult(e, ps, qs, rs, resp, m, u) ==
    [exc |-> e, predictions |-> ps, queries |-> qs, references |-> rs,
     response |-> resp, m_inc |-> m, u_inc |-> u]

\* lines 101-108 with match_inc = 1 moved before json.loads
OnDecodeError_MatchSetEarly(ps, refs, resp) ==
    RowResult("none", Pad(ps, refs.queries), refs.queries, refs.references, resp, 1, 1)

\* lines 101-108: json.loads(response) raised JSONDecodeError
OnDecodeError(ps, refs, resp) ==
    RowResult("none", Pad(ps, refs.queries), refs.queries, refs.references, resp, 0, 1)

\* lines 94-100 and 104-108: json.loads(response) returned `items`
OnParsed(ps, refs, resp, items, nrefs) ==
    RowResult("none", Pad(PredLoop(items, 0, nrefs, ps), refs.queries),
              refs.queries, refs.references, resp, 1, 0)

\* lines 92-108: the try statement and the padding, for the parsed response
AfterLoads(ps, refs, nrefs, resp, json_predictions) ==
    IF ~json_predictions.ok THEN OnDecodeError(ps, refs, resp)
    ELSE IF ~Iterable(json_predictions.val)
    THEN RowResult("TypeError", ps, refs.queries, refs.references, resp, 0, 0)
    ELSE OnParsed(ps, refs, resp, Elements(json_predictions.val), nrefs)

\* lines 90-108: `refs` is the outcome of the loop of lines 86-88, `cleaned`
\* the outcome of _clean_response(str(row['summary']))
AfterRefs(ps, refs, nrefs, cleaned) ==
    IF refs.exc # "none"
    THEN RowResult(refs.exc, ps, refs.queries, refs.references, "", 0, 0)
    ELSE IF cleaned.exc # "none"
    THEN RowResult(cleaned.exc, ps, refs.queries, refs.references, "", 0, 0)
    ELSE AfterLoads(ps, refs, nrefs, cleaned.val, json_loads(cleaned.val))

\* lines 86-108: json.loads(row['reference']) returned `json_references`
OnReferences(r, ps, qs, rs, json_references) ==
    IF ~json_references.ok THEN RowResult("JSONDecodeError", ps, qs, rs, "", 0, 0)
    ELSE IF ~Iterable(json_references.val) THEN RowResult("TypeError", ps, qs, rs, "", 0, 0)
    ELSE AfterRefs(ps, RefLoop(Elements(json_references.val), 1, qs, rs),
                   Len(Elements(json_references.val)), clean_response(r.summary))

process_row(r, ps, qs, rs) == OnReferences(r, ps, qs, rs, json_loads(r.reference))

----------------------------------------------------------------------------
(* Inputs *)

MaxRows == 2      \* rows of the file that are iterated
MaxTokens == 2    \* tokens of a free response text
MaxObjects == 1   \* objects of a canonical array

ScenarioA == "[INST] junk [/INST] [{\"query\": \"q1\", \"summary\": \"s1\"}]"
ScenarioA_Normalized == "[{\"query\": \"q1\", \"summary\": \"s1\"}]"
ScenarioB == "{\"summary\": \"s1\"} {\"summary\": \"s2\"}"
TwoItems ==
    "[{\"query\": \"q 1\", \"summary\": \"s 1\"}, {\"query\": \"q 2\", \"summary\": \"s 2\"}]"
Repairable == "Sure: [{\"query\": \"q 1\"} {\"summary\": \"s 2\"}] ok"
EndsWithMarker == "[{\"summary\": \"s 1\"}] #Transcript End"
AfterMarker == "[x] #Transcript End [{\"summary\": \"s 1\"}] #Transcript End [{\"summary\": \"s 2\"}] "

\* the `summary` column of a row
Responses == {ScenarioA, ScenarioB, TwoItems, Repairable, EndsWithMarker, "[]"}

Ref1 == "[{\"query\": \" q1 \", \"summary\": \"r1\"}]"
Ref3 ==
    "[{\"query\": \"qa\", \"summary\": \"ra\"}, {\"query\": \"qb\", \"summary\": \"rb\"}, {\"query\": \"qc\", \"summary\": \"rc\"}]"

\* the `reference` column of a row; the last one is not JSON
RefTexts == {"[]", Ref1, Ref3, "oops"}

Rows == [reference : RefTexts, summary : Responses]

NoRow == [reference |-> "", summary |-> ""]

\* number of items of a well-formed reference text
RefCount(text) == Len(Elements(json_loads(text).val))

Tokens ==
    {"[", "]", "{", "}", ",", ":", " ", "\n", "'", "a", Fence, "[/INST]",
     "#Transcript End", "[ / JSONObjects]", "\"query\"", "\"s1\""}

RECURSIVE TokenTexts(_)
TokenTexts(n) ==
    IF n = 0 THEN {""}
    ELSE LET shorter == TokenTexts(n - 1)
         IN  shorter \cup {t \o tok : t \in shorter, tok \in Tokens}

Fixtures ==
    {ScenarioA, ScenarioB, TwoItems, Repairable, EndsWithMarker, AfterMarker,
     "label: [1]", "[a #Transcript End b] c", "# #Transcript End x",
     "[a " \o U00E2 \o U20AC \o U02DC \o "b" \o U00E2 \o U20AC \o U0153 \o Fence \o "json]"}

FreeTexts == Fixtures \cup TokenTexts(MaxTokens)

\* values of the query and summary fields of a canonical array
CanonValues == {"q1", "s 1", "query", "", "a #Transcript End b"}

CanonObject(pair) ==
    "{\"query\": \"" \o pair[1] \o "\", \"summary\": \"" \o pair[2] \o "\"}"

\* json.dumps layout of a list of {query, summary} objects
Canonical(pairs) == "[" \o join([i \in 1..Len(pairs) |-> CanonObject(pairs[i])], ", ") \o "]"

RECURSIVE PairSeqs(_)
PairSeqs(n) ==
    IF n = 0 THEN {<<>>}
    ELSE LET shorter == PairSeqs(n - 1)
         IN  shorter \cup {Append(ps, <<q, v>>) : ps \in shorter, q \in CanonValues, v \in CanonValues}

CanonShapes == {[canonical |-> TRUE, values |-> ps] : ps \in PairSeqs(MaxObjects)}

FreeShape == [canonical |-> FALSE, values |-> <<>>]

----------------------------------------------------------------------------
(* _clean_response as a process: one source line per step *)

Return == Len(CleanLines) + 1

InitFile ==
    /\ pc = "loop"
    /\ rows = 0
    /\ row = NoRow
    /\ response = ""
    /\ queries = <<>>
    /\ references = <<>>
    /\ predictions = <<>>
    /\ match = 0
    /\ unmatch = 0
    /\ m_inc = 0
    /\ u_inc = 0
    /\ exc = "none"
    /\ rougeCalls = 0
    /\ bertCalls = 0
    /\ rougeArgs = <<>>
    /\ bertArgs = <<>>
    /\ printed = "none"
    /\ accuracy = <<>>

InitCall(text, sh) ==
    /\ origin = text
    /\ shape = sh
    /\ pass = 1
    /\ first = ""
    /\ cur = text
    /\ prev = text
    /\ cpc = 1
    /\ cexc = "none"

InitClean ==
    /\ \/ \E text \in FreeTexts : InitCall(text, FreeShape)
       \/ \E sh \in CanonShapes : InitCall(Canonical(sh.values), sh)
    /\ InitFile

\* the line at cpc runs and returns
CleanLine ==
    /\ cpc < Return
    /\ cexc = "none"
    /\ Exec(CleanLines[cpc], cur).exc = "none"
    /\ prev' = cur
    /\ cur' = Exec(CleanLines[cpc], cur).val
    /\ cpc' = cpc + 1
    /\ first' = IF pass = 1 /\ cpc' = Return THEN cur' ELSE first
    /\ UNCHANGED <<origin, shape, pass, cexc>>
    /\ UNCHANGED fileVars

\* the line at cpc raises: the call is left with the exception
CleanRaise ==
    /\ cpc < Return
    /\ cexc = "none"
    /\ Exec(CleanLines[cpc], cur).exc # "none"
    /\ cexc' = Exec(CleanLines[cpc], cur).exc
    /\ UNCHANGED <<origin, shape, pass, first, cur, prev, cpc>>
    /\ UNCHANGED fileVars

\* _clean_response is called on the string the first call returned
CleanAgain ==
    /\ cpc = Return
    /\ pass = 1
    /\ pass' = 2
    /\ cur' = first
    /\ prev' = first
    /\ cpc' = 1
    /\ UNCHANGED <<origin, shape, first, cexc>>
    /\ UNCHANGED fileVars

NextClean == CleanLine \/ CleanRaise \/ CleanAgain

SpecClean == InitClean /\ [][NextClean]_vars

----------------------------------------------------------------------------
(* evaluate_file *)

\* line 131 without the factor 100
Accuracy_NoPercent(m, u) == (200 * m + (m + u)) \div (2 * (m + u))

\* f"{accuracy:.2f}" of 100 * (match / (match + unmatch)), in hundredths of a
\* percent (no tie of the rounding occurs below 32 rows)
Accuracy(m, u) == (20000 * m + (m + u)) \div (2 * (m + u))

Init ==
    /\ InitCall("", FreeShape)
    /\ InitFile

\* lines 118-121: one iteration of the loop over df.iterrows().  When
\* _process_row raises, the exception leaves evaluate_file with the lists as
\* _process_row left them.
IterRow ==
    /\ pc = "loop"
    /\ rows < MaxRows
    /\ \E r \in Rows :
        \E res \in {process_row(r, predictions, queries, references)} :
            /\ row' = r
            /\ rows' = rows + 1
            /\ predictions' = res.predictions
            /\ queries' = res.queries
            /\ references' = res.references
            /\ exc' = res.exc
            /\ IF res.exc = "none"
               THEN /\ response' = res.response
                    /\ m_inc' = res.m_inc
                    /\ u_inc' = res.u_inc
                    /\ match' = match + res.m_inc
                    /\ unmatch' = unmatch + res.u_inc
                    /\ pc' = pc
               ELSE /\ pc' = "raised"
                    /\ UNCHANGED <<response, m_inc, u_inc, match, unmatch>>
    /\ UNCHANGED <<rougeCalls, bertCalls, rougeArgs, bertArgs, printed, accuracy>>
    /\ UNCHANGED cleanVars

\* lines 123-125: the rows are exhausted and none was counted
NoRows ==
    /\ pc = "loop"
    /\ match + unmatch = 0
    /\ printed' = "norows"
    /\ pc' = "done"
    /\ UNCHANGED <<rows, row, response, queries, references, predictions, match, unmatch,
                   m_inc, u_inc, exc, rougeCalls, bertCalls, rougeArgs, bertArgs, accuracy>>
    /\ UNCHANGED cleanVars

\* line 127 reached without the test of line 123
RougeCompute_NoGuard ==
    /\ pc = "loop"
    /\ rougeCalls' = rougeCalls + 1
    /\ rougeArgs' = <<predictions, references>>
    /\ pc' = "bert"
    /\ UNCHANGED <<rows, row, response, queries, references, predictions, match, unmatch,
                   m_inc, u_inc, exc, bertCalls, bertArgs, printed, accuracy>>
    /\ UNCHANGED cleanVars

\* line 127, after the loop and the test of line 123
RougeCompute ==
    /\ pc = "loop"
    /\ match + unmatch # 0
    /\ rougeCalls' = rougeCalls + 1
    /\ rougeArgs' = <<predictions, references>>
    /\ pc' = "bert"
    /\ UNCHANGED <<rows, row, response, queries, references, predictions, match, unmatch,
                   m_inc, u_inc, exc, bertCalls, bertArgs, printed, accuracy>>
    /\ UNCHANGED cleanVars

\* lines 128-129
BertCompute ==
    /\ pc = "bert"
    /\ bertCalls' = bertCalls + 1
    /\ bertArgs' = <<predictions, references>>
    /\ pc' = "report"
    /\ UNCHANGED <<rows, row, response, queries, references, predictions, match, unmatch,
                   m_inc, u_inc, exc, rougeCalls, rougeArgs, printed, accuracy>>
    /\ UNCHANGED cleanVars

\* lines 131-136
Report ==
    /\ pc = "report"
    /\ accuracy' = <<Accuracy(match, unmatch)>>
    /\ printed' = "report"
    /\ pc' = "done"
    /\ UNCHANGED <<rows, row, response, queries, references, predictions, match, unmatch,
                   m_inc, u_inc, exc, rougeCalls, bertCalls, rougeArgs, bertArgs>>
    /\ UNCHANGED cleanVars

Next == IterRow \/ NoRows \/ RougeCompute \/ BertCompute \/ Report

Spec == Init /\ [][Next]_vars

----------------------------------------------------------------------------
(* Properties *)

Empties(n) == [i \in 1..n |-> ""]

\* the last n entries of a list
Tail_n(list, n) == SubSeq(list, Len(list) - n + 1, Len(list))

\* position of a source line in CleanLines
Idx(line) == CHOOSE i \in 1..Len(CleanLines) : CleanLines[i] = line

\* the given source line of _clean_response is the one executed last
JustRan(line) == cpc = Idx(line) + 1 /\ cexc = "none"

Marker == "#Transcript End"

\* j is the position of the last occurrence of the marker in s
IsLastMarker(s, j) ==
    /\ StartsAt(s, Marker, j)
    /\ \A k \in (j + 1)..Len(s) : ~StartsAt(s, Marker, k)

\* C1: whenever _process_row has completed for every record iterated so far
\* (no exception left evaluate_file), the three lists have the same length.
C1_LengthParity ==
    pc # "raised" =>
        /\ Len(queries) = Len(references)
        /\ Len(references) = Len(predictions)

C1_Witness ==
    /\ pc = "loop"
    /\ rows = 2
    /\ match >= 1
    /\ unmatch >= 1
    /\ Len(predictions) >= 4
    /\ Len(queries) = Len(predictions)

\* C2: an iteration on a record whose reference is well formed and whose
\* normalized response is not valid JSON does not raise, returns (0, 1),
\* appends exactly n empty strings to predictions, leaves Matched unchanged,
\* adds 1 to Unmatched and stays in the loop.
C2_Step ==
    \A cleaned \in {clean_response(row'.summary)} :
        (/\ rows' = rows + 1
         /\ json_loads(row'.reference).ok
         /\ cleaned.exc = "none"
         /\ ~json_loads(cleaned.val).ok)
        => /\ exc' = "none"
           /\ pc' = "loop"
           /\ m_inc' = 0
           /\ u_inc' = 1
           /\ match' = match
           /\ unmatch' = unmatch + 1
           /\ predictions' = predictions \o Empties(RefCount(row'.reference))

C2_RecoverableFailure == [][C2_Step]_vars

C2_Witness ==
    /\ pc = "loop"
    /\ rows = 2
    /\ row.reference = Ref3
    /\ ~json_loads(response).ok
    /\ u_inc = 1
    /\ unmatch = 2
    /\ Tail_n(predictions, 3) = <<"", "", "">>

\* C3: _clean_response never raises.
C3_NormalizerTotal == cexc = "none"

\* C4: Scenario A is normalized to the JSON text of the scenario, classified
\* Matched, and its one item is extracted with summary "s1".
C4_ScenarioA ==
    (pc = "loop" /\ rows >= 1 /\ row.summary = ScenarioA) =>
        /\ response = ScenarioA_Normalized
        /\ m_inc = 1
        /\ u_inc = 0
        /\ RefCount(row.reference) >= 1 =>
              Tail_n(predictions, RefCount(row.reference))[1] = "s1"

\* C5: an iteration on a record with n reference items whose normalized
\* response parses to an array of k elements appends exactly n entries and
\* keeps the earlier ones: the summaries of the first min(k, n) elements in
\* array order, then n - min(k, n) empty strings.
C5_Step ==
    \A cleaned \in {clean_response(row'.summary)} :
    \A parsed \in {json_loads(cleaned.val)} :
    \A n \in {RefCount(row'.reference)} :
        (/\ rows' = rows + 1
         /\ json_loads(row'.reference).ok
         /\ cleaned.exc = "none"
         /\ parsed.ok
         /\ parsed.val.k = "arr")
        => LET items == parsed.val.v
               kept == Min(Len(items), n)
           IN  predictions' =
                   predictions \o
                       [i \in 1..n |-> IF i <= kept THEN ItemSummary(items[i]) ELSE ""]

C5_Contribution == [][C5_Step]_vars

C5_Witness ==
    /\ pc = "loop"
    /\ rows = 2
    /\ row.reference = Ref3
    /\ row.summary = TwoItems
    /\ Len(predictions) = 4
    /\ Tail_n(predictions, 3) = <<"s 1", "s 2", "">>

\* C6: every record whose processing finishes adds exactly 1 to exactly one
\* of Matched / Unmatched, so Matched + Unmatched is the number of records;
\* the reported accuracy is 100 * Matched / (Matched + Unmatched) (to the two
\* decimals printed) and lies in [0, 100]; it is computed only when the sum
\* is not zero.
C6_State ==
    /\ pc # "raised" => match + unmatch = rows
    /\ (pc # "raised" /\ rows >= 1) => <<m_inc, u_inc>> \in {<<0, 1>>, <<1, 0>>}
    /\ accuracy # <<>> =>
          /\ match + unmatch > 0
          /\ accuracy[1] >= 0
          /\ accuracy[1] <= 10000
          /\ 2 * accuracy[1] * (match + unmatch) - 20000 * match <= match + unmatch
          /\ 20000 * match - 2 * accuracy[1] * (match + unmatch) <= match + unmatch
    /\ printed = "report" <=> accuracy # <<>>
    /\ pc = "done" => (printed = "report" <=> match + unmatch > 0)

C6_Step ==
    (rows' = rows + 1 /\ pc' = "loop") =>
        \/ match' = match + 1 /\ unmatch' = unmatch
        \/ match' = match /\ unmatch' = unmatch + 1

C6_Accounting == []C6_State /\ [][C6_Step]_vars

C6_Witness ==
    /\ printed = "report"
    /\ rows = 2
    /\ match = 1
    /\ unmatch = 1
    /\ accuracy = <<5000>>

\* C7: each scorer is invoked at most once per file, only after the last
\* record was processed and on the full lists; a file without rows gets the
\* notice and no scorer call; an exception of _process_row leaves
\* evaluate_file before any scorer call.
C7_State ==
    /\ rougeCalls <= 1
    /\ bertCalls <= 1
    /\ bertCalls <= rougeCalls
    /\ rougeCalls = 1 => pc \in {"bert", "report", "done"} /\ rougeArgs = <<predictions, references>>
    /\ bertCalls = 1 => pc \in {"report", "done"} /\ bertArgs = <<predictions, references>>
    /\ printed = "report" => rougeCalls = 1 /\ bertCalls = 1
    /\ (rows = 0 /\ pc = "done") => printed = "norows"
    /\ (rows = 0 \/ printed = "norows") => rougeCalls = 0 /\ bertCalls = 0
    /\ pc = "raised" => rougeCalls = 0 /\ bertCalls = 0 /\ printed = "none"

C7_Step ==
    /\ rougeCalls >= 1 => rows' = rows /\ predictions' = predictions /\ references' = references
    /\ pc = "raised" => UNCHANGED vars

C7_ScorerOrder == []C7_State /\ [][C7_Step]_vars

C7_Witness ==
    /\ pc = "done"
    /\ rows = 2
    /\ rougeCalls = 1
    /\ bertCalls = 1
    /\ Len(rougeArgs[1]) >= 1
    /\ bertArgs = rougeArgs

\* the values of a canonical array are made of letters, digits and spaces
PlainChars == Chars("abcdefghijklmnopqrstuvwxyzABCDEFGHIJKLMNOPQRSTUVWXYZ0123456789 ")

PlainValues(pairs) ==
    \A i \in 1..Len(pairs) : Chars(pairs[i][1]) \cup Chars(pairs[i][2]) \subseteq PlainChars

C9_DiscardsAfterMarker ==
    (JustRan(60) /\ contains(prev, Marker)) =>
        \E j \in 1..Len(prev) :
            /\ IsLastMarker(prev, j)
            /\ cur \in {strip(Slice(prev, 1, j - 1)),
                        strip(Slice(prev, 1, j + Len(Marker) - 1))}

\* C9 amended: after line 60 on a text that contains the marker, what is left
\* (and handed to the closing-bracket rule) is the trimmed text that follows
\* the last marker; the marker and everything before it are discarded.
C9_KeepsAfterMarker ==
    (JustRan(60) /\ contains(prev, Marker)) =>
        \E j \in 1..Len(prev) :
            /\ IsLastMarker(prev, j)
            /\ cur = strip(Slice(prev, j + Len(Marker), Len(prev)))

C9_Witness ==
    /\ JustRan(60)
    /\ origin = AfterMarker
    /\ pass = 1
    /\ contains(prev, "#Transcript End [{")
    /\ cur = "[{\"summary\": \"s 2\"}]"

\* C10: on a raw response without "[", line 44 leaves "[" alone, lines 45-49
\* and line 59 change nothing, _clean_response returns "]", and a record
\* with that response is Unmatched with one empty prediction per reference.
C10_NoBracket ==
    (pass = 1 /\ ~contains(origin, "[")) =>
        /\ cexc = "none"
        /\ JustRan(44) => cur = "["
        /\ JustRan(45) => cur = prev
        /\ JustRan(59) => cur = prev
        /\ cpc = Return =>
              /\ cur = "]"
              /\ \A ref \in {"[]", Ref1, Ref3} :
                    LET res == process_row([reference |-> ref, summary |-> origin],
                                           <<>>, <<>>, <<>>)
                    IN  /\ res.exc = "none"
                        /\ res.m_inc = 0
                        /\ res.u_inc = 1
                        /\ res.predictions = Empties(RefCount(ref))

C10_Witness ==
    /\ origin = ScenarioB
    /\ pass = 1
    /\ cpc = Return
    /\ cur = "]"
    /\ first = "]"

====
